---- MODULE Spec2Model ----
(***************************************************************************)
(* Model of src/app.py: the /predict and /health handlers of the price     *)
(* prediction service, the 43-slot feature vector builder and the          *)
(* post-processing of the model's raw score.                               *)
(*                                                                         *)
(* Representation.                                                         *)
(*   - A Python str is a sequence of one-character strings.                *)
(*   - A JSON value of the request is a record [t, n, s]: t is "absent"    *)
(*     (key not in the mapping), "int" (n is the integer), "dec" (a        *)
(*     non-integral number, n in hundredths) or "str" (s is the text).     *)
(*   - A float of the feature vector is an exact fixed-point number in     *)
(*     hundredths (Scale); the model's raw score is in 1/10000 (Fine).     *)
(*   - A Python call that may raise returns [ok, ...]; ok = FALSE is the   *)
(*     exception.                                                          *)
(***************************************************************************)
EXTENDS Integers, Sequences, FiniteSets, TLC

VARIABLES model, label_encoders, pc, handler, data, input_features,
          built, inferred, prediction, response

vars == <<model, label_encoders, pc, handler, data, input_features,
          built, inferred, prediction, response>>

----------------------------------------------------------------------------
(* Bounds and representation constants *)

\* a request carries at most MaxOptional of the nine optional fields
MaxOptional == 2

\* number of feature slots appended by build_complete_features
NFeatures == 43

\* feature values are kept in hundredths
Scale == 100

\* raw scores are kept in ten-thousandths
Fine == 10000

----------------------------------------------------------------------------
(* Strings *)

Mumbai == <<"M","u","m","b","a","i">>
Delhi == <<"D","e","l","h","i">>
Bengaluru == <<"B","e","n","g","a","l","u","r","u">>
Chennai == <<"C","h","e","n","n","a","i">>
Hyderabad == <<"H","y","d","e","r","a","b","a","d">>
Kolkata == <<"K","o","l","k","a","t","a">>
Pune == <<"P","u","n","e">>
Ahmedabad == <<"A","h","m","e","d","a","b","a","d">>
Atlantis == <<"A","t","l","a","n","t","i","s">>
Apartment == <<"A","p","a","r","t","m","e","n","t">>
Villa == <<"V","i","l","l","a">>
Furnished == <<"F","u","r","n","i","s","h","e","d">>
Unfurnished == <<"U","n","f","u","r","n","i","s","h","e","d">>
Luxury == <<"L","u","x","u","r","y">>
No == <<"N","o">>
Yes == <<"Y","e","s">>
North == <<"N","o","r","t","h">>
East == <<"E","a","s","t">>

Whitespace == {" "}
Digits == {"0","1","2","3","4","5","6","7","8","9"}

DigitVal(c) ==
  CASE c = "0" -> 0 [] c = "1" -> 1 [] c = "2" -> 2 [] c = "3" -> 3
    [] c = "4" -> 4 [] c = "5" -> 5 [] c = "6" -> 6 [] c = "7" -> 7
    [] c = "8" -> 8 [] c = "9" -> 9

\* str.strip(): drop leading and trailing whitespace
RECURSIVE LStrip(_)
LStrip(s) ==
  IF s # <<>> /\ Head(s) \in Whitespace THEN LStrip(Tail(s)) ELSE s

RECURSIVE RStrip(_)
RStrip(s) ==
  IF s # <<>> /\ s[Len(s)] \in Whitespace
  THEN RStrip(SubSeq(s, 1, Len(s) - 1)) ELSE s

Strip(s) == RStrip(LStrip(s))

AllDigits(s) == \A i \in 1..Len(s) : s[i] \in Digits

RECURSIVE DigitsValue(_)
DigitsValue(s) ==
  IF s = <<>> THEN 0
  ELSE 10 * DigitsValue(SubSeq(s, 1, Len(s) - 1)) + DigitVal(s[Len(s)])

----------------------------------------------------------------------------
(* JSON values of the request mapping *)

Absent == [t |-> "absent", n |-> 0, s |-> <<>>]
IntV(k) == [t |-> "int", n |-> k, s |-> <<>>]
DecV(c) == [t |-> "dec", n |-> c, s |-> <<>>]
StrV(x) == [t |-> "str", n |-> 0, s |-> x]

\* dict.get(key, default)
Get(d, key, default) == IF d[key].t = "absent" THEN default ELSE d[key]

\* truncation toward zero, as int(float) does
TruncDiv(a, b) == IF a >= 0 THEN a \div b ELSE -((-a) \div b)

\* int(str): surrounding whitespace and one sign are accepted, then digits
ParseInt(x) ==
  LET body == Strip(x)
      signed == body # <<>> /\ Head(body) \in {"-", "+"}
      digs == IF signed THEN Tail(body) ELSE body
      neg == signed /\ Head(body) = "-"
  IN IF digs # <<>> /\ AllDigits(digs)
     THEN [ok |-> TRUE, n |-> IF neg THEN -DigitsValue(digs) ELSE DigitsValue(digs)]
     ELSE [ok |-> FALSE, n |-> 0]

\* int(v) of lines 26-31
PyInt(v) ==
  CASE v.t = "int" -> [ok |-> TRUE, n |-> v.n]
    [] v.t = "dec" -> [ok |-> TRUE, n |-> TruncDiv(v.n, Scale)]
    [] v.t = "str" -> ParseInt(v.s)
    [] OTHER -> [ok |-> FALSE, n |-> 0]

\* position of the decimal point, 0 when there is none
PointAt(s) ==
  IF \E i \in 1..Len(s) : s[i] = "."
  THEN CHOOSE i \in 1..Len(s) : s[i] = "." /\ \A j \in 1..(i - 1) : s[j] # "."
  ELSE 0

\* the first two fractional digits, in hundredths
FracCenti(f) ==
  CASE Len(f) = 0 -> 0
    [] Len(f) = 1 -> 10 * DigitVal(f[1])
    [] OTHER -> 10 * DigitVal(f[1]) + DigitVal(f[2])

\* float(str) for decimal literals: [ws][sign]digits[.digits][ws], in hundredths
ParseFloat(x) ==
  LET body == Strip(x)
      signed == body # <<>> /\ Head(body) \in {"-", "+"}
      num == IF signed THEN Tail(body) ELSE body
      neg == signed /\ Head(body) = "-"
      p == PointAt(num)
      ip == IF p = 0 THEN num ELSE SubSeq(num, 1, p - 1)
      fp == IF p = 0 THEN <<>> ELSE SubSeq(num, p + 1, Len(num))
      mag == Scale * DigitsValue(ip) + FracCenti(fp)
  IN IF AllDigits(ip) /\ AllDigits(fp) /\ Len(ip) + Len(fp) > 0
     THEN [ok |-> TRUE, n |-> IF neg THEN -mag ELSE mag]
     ELSE [ok |-> FALSE, n |-> 0]

\* float(v) of lines 28 and 208, in hundredths
PyFloat(v) ==
  CASE v.t = "int" -> [ok |-> TRUE, n |-> Scale * v.n]
    [] v.t = "dec" -> [ok |-> TRUE, n |-> v.n]
    [] v.t = "str" -> ParseFloat(v.s)
    [] OTHER -> [ok |-> FALSE, n |-> 0]

----------------------------------------------------------------------------
(* Process-wide state: the model and the label encoders, lines 10-18 *)

CatNames == {"City", "Property_Type", "Furnishing", "Parking", "Facing"}

NoClasses == [f \in CatNames |-> <<>>]

\* model = None, label_encoders = None (lines 17-18)
NoModel == [loaded |-> FALSE, n_features_in_ |-> 0]
NoEncoders == [loaded |-> FALSE, fields |-> {}, classes |-> NoClasses]

\* a LabelEncoder's classes_ is sorted and duplicate-free
FullClasses ==
  [f \in CatNames |->
     CASE f = "City" -> <<Bengaluru, Delhi, Mumbai, Pune>>
       [] f = "Property_Type" -> <<Apartment, Villa>>
       [] f = "Furnishing" -> <<Furnished, Unfurnished>>
       [] f = "Parking" -> <<No, Yes>>
       [] f = "Facing" -> <<East, North>>]

PartialClasses ==
  [f \in CatNames |->
     CASE f = "City" -> <<Delhi, Mumbai>>
       [] f = "Property_Type" -> <<Apartment>>
       [] f = "Furnishing" -> <<Unfurnished>>
       [] OTHER -> <<>>]

\* the dictionaries fixed_label_encoders.joblib may hold
EncoderArtifacts ==
  { [loaded |-> TRUE, fields |-> CatNames, classes |-> FullClasses],
    [loaded |-> TRUE, fields |-> {"City", "Property_Type", "Furnishing"},
     classes |-> PartialClasses] }

\* the models mdl.joblib may hold, by their declared feature count
ModelArtifacts ==
  { [loaded |-> TRUE, n_features_in_ |-> k] : k \in {NFeatures, NFeatures - 1} }

\* the raw scores model.predict may return, in 1/Fine
RawScores ==
  { (Fine \div 1000) * m :
      m \in { -15000000, -12000, 55000, 55125, 55126, 10000000, 10000010,
              15000000 } }

----------------------------------------------------------------------------
(* safe_encode, lines 37-45 *)

InClasses(classes, v) == v.t = "str" /\ \E i \in 1..Len(classes) : classes[i] = v.s

\* LabelEncoder.transform([value])[0]: the position, ValueError when unseen
Transform(classes, v) ==
  IF InClasses(classes, v)
  THEN [ok |-> TRUE, n |-> (CHOOSE i \in 1..Len(classes) : classes[i] = v.s) - 1]
  ELSE [ok |-> FALSE, n |-> 0]

\* mutant: no membership test before transform
safe_encode_unguarded(le, encoder_name, value) ==
  IF ~le.loaded THEN [ok |-> FALSE, n |-> 0]
  ELSE IF encoder_name \in le.fields
       THEN Transform(le.classes[encoder_name], value)
       ELSE [ok |-> TRUE, n |-> 0]

safe_encode(le, encoder_name, value) ==
  IF ~le.loaded
  THEN [ok |-> FALSE, n |-> 0]     \* "in None" raises TypeError
  ELSE IF encoder_name \in le.fields
       THEN IF InClasses(le.classes[encoder_name], value)
            THEN Transform(le.classes[encoder_name], value)
            ELSE [ok |-> TRUE, n |-> 0]
       ELSE [ok |-> TRUE, n |-> 0]

----------------------------------------------------------------------------
(* build_complete_features, lines 20-184 *)

Max(a, b) == IF a >= b THEN a ELSE b

\* slot 7, line 69
Balconies(bhk) == Max(1, bhk - 1)

\* mutant: lift from the third floor on
Lift_Available_geq(total_floors) == IF total_floors >= 3 THEN 1 ELSE 0

\* slot 15, line 93
Lift_Available(total_floors) == IF total_floors > 3 THEN 1 ELSE 0

\* slot 32, lines 144-147
city_pollution(city) ==
  CASE city = StrV(Mumbai) -> 80
    [] city = StrV(Delhi) -> 90
    [] city = StrV(Bengaluru) -> 60
    [] city = StrV(Chennai) -> 70
    [] city = StrV(Hyderabad) -> 65
    [] city = StrV(Kolkata) -> 75
    [] city = StrV(Pune) -> 55
    [] city = StrV(Ahmedabad) -> 85
    [] OTHER -> 65

\* area_sqft * 2.5 on hundredths
TimesTwoAndHalf(a) == (a * 25) \div 10

\* slots 1-13, lines 50-87
PropertySlots(c_city, c_ptype, bhk, bathrooms, floor, age, c_furn, c_park, c_face) ==
  << Scale * c_city, 0, Scale * c_ptype, 0, Scale * bhk, Scale * bathrooms,
     Scale * Balconies(bhk), Scale * floor, Scale * age, 0,
     Scale * c_furn, Scale * c_park, Scale * c_face >>

\* slots 14-26, lines 89-126
AmenitySlots(total_floors) ==
  << Scale * 1, Scale * Lift_Available(total_floors), 0, Scale * 1, 0, 0,
     Scale * 1, 0, Scale * 1, 250, 400, 300, 150 >>

\* slots 27-43, lines 128-181
MarketSlots(city, area_sqft, total_floors) ==
  << TimesTwoAndHalf(area_sqft), 110000, 850, Scale * 1, area_sqft * 12,
     Scale * city_pollution(city), 5000, 1500, 800, 750, 0, 0, 700, 650, 350,
     area_sqft, Scale * total_floors >>

\* mutant: the Locality append (slot 2) is missing
FeatureListNoLocality(city, codes, bhk, bathrooms, area_sqft, age, floor, total_floors) ==
  LET a == PropertySlots(codes[1], codes[2], bhk, bathrooms, floor, age,
                         codes[3], codes[4], codes[5])
  IN <<a[1]>> \o SubSeq(a, 3, Len(a)) \o AmenitySlots(total_floors)
       \o MarketSlots(city, area_sqft, total_floors)

\* the list after the appends of lines 48-181
FeatureList(city, codes, bhk, bathrooms, area_sqft, age, floor, total_floors) ==
  PropertySlots(codes[1], codes[2], bhk, bathrooms, floor, age,
                codes[3], codes[4], codes[5])
    \o AmenitySlots(total_floors)
    \o MarketSlots(city, area_sqft, total_floors)

Raised == [ok |-> FALSE, features |-> <<>>]

build_complete_features(user_input, le) ==
  LET city == Get(user_input, "city", StrV(Mumbai))
      property_type == Get(user_input, "property_type", StrV(Apartment))
      bhk == PyInt(Get(user_input, "bedrooms", IntV(2)))
      bathrooms == PyInt(Get(user_input, "bathrooms", IntV(1)))
      area_sqft == PyFloat(Get(user_input, "area_sqft", IntV(1000)))
      age == PyInt(Get(user_input, "age", IntV(5)))
      floor == PyInt(Get(user_input, "floor", IntV(1)))
      total_floors == PyInt(Get(user_input, "total_floors", IntV(10)))
      furnishing == Get(user_input, "furnishing", StrV(Unfurnished))
      parking == Get(user_input, "parking", StrV(No))
      facing == Get(user_input, "facing", StrV(North))
      enc == << safe_encode(le, "City", city),
                safe_encode(le, "Property_Type", property_type),
                safe_encode(le, "Furnishing", furnishing),
                safe_encode(le, "Parking", parking),
                safe_encode(le, "Facing", facing) >>
  IN IF ~(bhk.ok /\ bathrooms.ok /\ area_sqft.ok /\ age.ok /\ floor.ok
          /\ total_floors.ok)
     THEN Raised
     ELSE IF \E i \in 1..Len(enc) : ~enc[i].ok
     THEN Raised
     ELSE [ok |-> TRUE,
           features |-> FeatureList(city, [i \in 1..Len(enc) |-> enc[i].n],
                                    bhk.n, bathrooms.n, area_sqft.n, age.n,
                                    floor.n, total_floors.n)]

----------------------------------------------------------------------------
(* Post-processing of the raw score, lines 233-249 *)

Abs(x) == IF x < 0 THEN -x ELSE x

\* round(x, 2): x in 1/Fine to hundredths, ties to the even hundredth
Round2(x) ==
  LET unit == Fine \div Scale
      m == Abs(x)
      q == m \div unit
      rem == m % unit
      r == IF 2 * rem > unit \/ (2 * rem = unit /\ q % 2 = 1) THEN q + 1 ELSE q
  IN IF x < 0 THEN -r ELSE r

\* mutant: the cap also applies at exactly 10000
Finalize_capAtThreshold(p) ==
  LET positive == IF p < 0 THEN Abs(p) ELSE p
      capped == IF positive >= 10000 * Fine THEN positive \div 10 ELSE positive
  IN capped

\* lines 234-239: sign correction, then the cap
Finalize(p) ==
  LET positive == IF p < 0 THEN Abs(p) ELSE p
      capped == IF positive > 10000 * Fine THEN positive \div 10 ELSE positive
  IN capped

\* f"{x:.2f}": the integral part and the two decimals
Format2(x) == <<Round2(x) \div Scale, Round2(x) % Scale>>

----------------------------------------------------------------------------
(* Responses (jsonify(...), status) *)

NoResponse ==
  [kind |-> "none", status |-> 0, error |-> "", price |-> <<0, 0>>,
   price_lakhs |-> 0, city |-> <<>>, property_type |-> <<>>, area_sqft |-> 0,
   features_count |-> 0, model_loaded |-> FALSE, encoders_loaded |-> FALSE,
   expected_features |-> 0]

ErrorResponse(msg, code) ==
  [NoResponse EXCEPT !.kind = "error", !.status = code, !.error = msg]

\* lines 247-256
PriceResponse(p, city, property_type, area_sqft, count) ==
  [NoResponse EXCEPT !.kind = "price", !.status = 200, !.price = Format2(p),
                     !.price_lakhs = Round2(p), !.city = city,
                     !.property_type = property_type, !.area_sqft = area_sqft,
                     !.features_count = count]

\* lines 266-271
HealthResponse(m, le) ==
  [NoResponse EXCEPT !.kind = "health", !.status = 200,
                     !.model_loaded = m.loaded, !.encoders_loaded = le.loaded,
                     !.expected_features = IF m.loaded THEN m.n_features_in_ ELSE 0]

----------------------------------------------------------------------------
(* predict, lines 190-262 *)

\* mutant: the availability test is missing
Unavailable_unchecked(m, le) == FALSE

\* line 196: not model or not label_encoders (an empty dict is falsy)
Unavailable(m, le) == ~m.loaded \/ ~le.loaded \/ le.fields = {}

\* mutant: only a negative area is rejected
AreaRejected_negativeOnly(area_sqft) == area_sqft < 0

\* line 209
AreaRejected(area_sqft) == area_sqft <= 0

Outcome(resp, feats, b, i, p) ==
  [response |-> resp, input_features |-> feats, built |-> b, inferred |-> i,
   prediction |-> p]

\* the handler's result for the request d when model.predict would return r
PredictOutcome(d, m, le, r) ==
  LET cityV == Get(d, "city", StrV(<<>>))
      ptypeV == Get(d, "property_type", StrV(<<>>))
      city == Strip(cityV.s)
      property_type == Strip(ptypeV.s)
      area == PyFloat(Get(d, "area_sqft", IntV(1000)))
      b == build_complete_features(d, le)
      count == Len(b.features)
      p == Finalize(r)
  IN CASE Unavailable(m, le) ->
            Outcome(ErrorResponse("Model not loaded properly", 500),
                    <<>>, FALSE, FALSE, 0)
       [] cityV.t # "str" \/ ptypeV.t # "str" ->      \* .strip() raises
            Outcome(ErrorResponse("Prediction failed", 500), <<>>, FALSE, FALSE, 0)
       [] city = <<>> \/ property_type = <<>> ->
            Outcome(ErrorResponse("City and Property Type are required", 400),
                    <<>>, FALSE, FALSE, 0)
       [] ~area.ok ->
            Outcome(ErrorResponse("Invalid area value", 400), <<>>, FALSE, FALSE, 0)
       [] AreaRejected(area.n) ->
            Outcome(ErrorResponse("Area must be greater than 0", 400),
                    <<>>, FALSE, FALSE, 0)
       [] ~b.ok ->
            Outcome(ErrorResponse("Prediction failed", 500), <<>>, TRUE, FALSE, 0)
       [] count # m.n_features_in_ ->
            Outcome(ErrorResponse("Feature mismatch", 400),
                    b.features, TRUE, FALSE, 0)
       [] OTHER ->
            Outcome(PriceResponse(p, city, property_type, area.n, count),
                    b.features, TRUE, TRUE, r)

\* model.predict (line 231) is called only when no earlier return or raise
\* ends the handler; its result matters only then
ReachesInference(d, m, le) == PredictOutcome(d, m, le, 0).inferred

----------------------------------------------------------------------------
(* Requests: the JSON mappings a client may post *)

RequiredFields == {"city", "property_type"}
OptionalFields == {"bedrooms", "bathrooms", "area_sqft", "age", "floor",
                   "total_floors", "furnishing", "parking", "facing"}
Fields == RequiredFields \cup OptionalFields

Candidates(f) ==
  CASE f = "city" -> {Absent, StrV(<<" ", " ">>), StrV(Mumbai),
                      StrV(<<" ">> \o Mumbai \o <<" ">>), StrV(Atlantis),
                      IntV(7)}
    [] f = "property_type" -> {Absent, StrV(Apartment), StrV(Villa \o <<" ">>)}
    [] f = "bedrooms" -> {IntV(0), IntV(3), StrV(<<"4">>), StrV(<<"x">>)}
    [] f = "bathrooms" -> {IntV(2), DecV(250)}
    [] f = "area_sqft" -> {IntV(0), IntV(1200), DecV(50), StrV(<<"-","5">>),
                           StrV(<<"7","5",".","5">>), StrV(<<"a","b","c">>)}
    [] f = "age" -> {IntV(0), StrV(<<"n","e","w">>)}
    [] f = "floor" -> {IntV(12)}
    [] f = "total_floors" -> {IntV(3), IntV(4), StrV(<<>>)}
    [] f = "furnishing" -> {StrV(Furnished), StrV(Luxury)}
    [] f = "parking" -> {StrV(Yes)}
    [] f = "facing" -> {StrV(East), StrV(<<"U","p">>)}

NoFields == [f \in Fields |-> Absent]

RECURSIVE Fill(_)
Fill(S) ==
  IF S = {} THEN {NoFields}
  ELSE LET f == CHOOSE x \in S : TRUE
       IN { [d EXCEPT ![f] = v] : d \in Fill(S \ {f}), v \in Candidates(f) }

Requests ==
  UNION { Fill(RequiredFields \cup S) :
            S \in { T \in SUBSET OptionalFields : Cardinality(T) <= MaxOptional } }

----------------------------------------------------------------------------
(* The state machine *)

\* lines 10-18: both artifacts load, or both globals are None
Init ==
  /\ \/ /\ model \in ModelArtifacts
        /\ label_encoders \in EncoderArtifacts
     \/ /\ model = NoModel
        /\ label_encoders = NoEncoders
  /\ pc = "idle"
  /\ handler = "none"
  /\ data = NoFields
  /\ input_features = <<>>
  /\ built = FALSE
  /\ inferred = FALSE
  /\ prediction = 0
  /\ response = NoResponse

\* mutant: a handler refits the City encoder on the label it was given
Globals_refit ==
  /\ model' = model
  /\ label_encoders' =
       IF label_encoders.loaded /\ data["city"].t = "str"
          /\ ~InClasses(label_encoders.classes["City"], data["city"])
       THEN [label_encoders EXCEPT
               !.classes["City"] = Append(@, data["city"].s)]
       ELSE label_encoders

\* the handlers only read the module-level globals (no global statement)
Globals_kept == UNCHANGED <<model, label_encoders>>

\* a POST /predict arrives: request.get_json, line 193
ReceivePredict ==
  /\ pc = "idle"
  /\ \E d \in Requests : data' = d
  /\ pc' = "received"
  /\ handler' = "predict"
  /\ Globals_kept
  /\ UNCHANGED <<input_features, built, inferred, prediction, response>>

\* the body of predict, lines 196-262
Predict ==
  /\ pc = "received"
  /\ handler = "predict"
  /\ \E r \in IF ReachesInference(data, model, label_encoders)
               THEN RawScores ELSE {0} :
       LET o == PredictOutcome(data, model, label_encoders, r)
       IN /\ response' = o.response
          /\ input_features' = o.input_features
          /\ built' = o.built
          /\ inferred' = o.inferred
          /\ prediction' = o.prediction
  /\ pc' = "done"
  /\ Globals_kept
  /\ UNCHANGED <<handler, data>>

\* GET /health, lines 264-271
Health ==
  /\ pc = "idle"
  /\ handler' = "health"
  /\ response' = HealthResponse(model, label_encoders)
  /\ pc' = "done"
  /\ Globals_kept
  /\ UNCHANGED <<data, input_features, built, inferred, prediction>>

\* the response is sent and the handler's locals are gone
Respond ==
  /\ pc = "done"
  /\ pc' = "idle"
  /\ handler' = "none"
  /\ data' = NoFields
  /\ input_features' = <<>>
  /\ built' = FALSE
  /\ inferred' = FALSE
  /\ prediction' = 0
  /\ response' = NoResponse
  /\ Globals_kept

Next == ReceivePredict \/ Predict \/ Health \/ Respond

Spec == Init /\ [][Next]_vars

----------------------------------------------------------------------------
(* Vocabulary of the properties *)

PredictDone == pc = "done" /\ handler = "predict"
HealthDone == pc = "done" /\ handler = "health"
LoadFailed == ~model.loaded \/ ~label_encoders.loaded

IntFields == {"bedrooms", "bathrooms", "age", "floor", "total_floors"}

NonEmptyText(v) == v.t = "str" /\ \E i \in 1..Len(v.s) : v.s[i] \notin Whitespace
IntegerOrAbsent(v) == v.t \in {"absent", "int"}
PositiveAreaOrAbsent(v) == v.t = "absent" \/ (v.t \in {"int", "dec"} /\ v.n > 0)

\* a request the validation rules accept: required texts, a positive area,
\* integer counts
PassesValidation(d) ==
  /\ NonEmptyText(d["city"])
  /\ NonEmptyText(d["property_type"])
  /\ PositiveAreaOrAbsent(d["area_sqft"])
  /\ \A f \in IntFields : IntegerOrAbsent(d[f])

RefInt(d, f, default) == IF d[f].t = "absent" THEN default ELSE d[f].n
RefText(d, f, default) == IF d[f].t = "absent" THEN default ELSE d[f].s
RefArea(d) ==
  CASE d["area_sqft"].t = "absent" -> 1000 * Scale
    [] d["area_sqft"].t = "int" -> d["area_sqft"].n * Scale
    [] OTHER -> d["area_sqft"].n

\* the code of a label: its position in the field's vocabulary, else 0
RefCode(le, name, text) ==
  IF name \notin le.fields THEN 0
  ELSE LET known == { i \in 1..Len(le.classes[name]) : le.classes[name][i] = text }
       IN IF known = {} THEN 0 ELSE (CHOOSE i \in known : TRUE) - 1

PollutionTable ==
  { <<Mumbai, 80>>, <<Delhi, 90>>, <<Bengaluru, 60>>, <<Chennai, 70>>,
    <<Hyderabad, 65>>, <<Kolkata, 75>>, <<Pune, 55>>, <<Ahmedabad, 85>> }

RefPollution(text) ==
  LET rows == { e \in PollutionTable : e[1] = text }
  IN IF rows = {} THEN 65 ELSE (CHOOSE e \in rows : TRUE)[2]

\* the 43-slot table, in hundredths
RefVector(d, le) ==
  LET city == RefText(d, "city", Mumbai)
      bedrooms == RefInt(d, "bedrooms", 2)
      total_floors == RefInt(d, "total_floors", 10)
      area == RefArea(d)
  IN [ i \in 1..NFeatures |->
       CASE i = 1 -> Scale * RefCode(le, "City", city)
         [] i = 3 -> Scale * RefCode(le, "Property_Type",
                                     RefText(d, "property_type", Apartment))
         [] i = 5 -> Scale * bedrooms
         [] i = 6 -> Scale * RefInt(d, "bathrooms", 1)
         [] i = 7 -> Scale * (IF bedrooms - 1 > 1 THEN bedrooms - 1 ELSE 1)
         [] i = 8 -> Scale * RefInt(d, "floor", 1)
         [] i = 9 -> Scale * RefInt(d, "age", 5)
         [] i = 11 -> Scale * RefCode(le, "Furnishing",
                                      RefText(d, "furnishing", Unfurnished))
         [] i = 12 -> Scale * RefCode(le, "Parking", RefText(d, "parking", No))
         [] i = 13 -> Scale * RefCode(le, "Facing", RefText(d, "facing", North))
         [] i = 15 -> IF total_floors > 3 THEN Scale ELSE 0
         [] i \in {14, 17, 20, 22, 30} -> Scale
         [] i = 23 -> 250
         [] i = 24 -> 400
         [] i = 25 -> 300
         [] i = 26 -> 150
         [] i = 27 -> (area * 5) \div 2
         [] i = 28 -> 1100 * Scale
         [] i = 29 -> 850
         [] i = 31 -> area * 12
         [] i = 32 -> Scale * RefPollution(city)
         [] i = 33 -> 50 * Scale
         [] i = 34 -> 15 * Scale
         [] i = 35 -> 8 * Scale
         [] i = 36 -> 750
         [] i = 39 -> 7 * Scale
         [] i = 40 -> 650
         [] i = 41 -> 350
         [] i = 42 -> area
         [] i = 43 -> Scale * total_floors
         [] OTHER -> 0 ]

----------------------------------------------------------------------------
(* C1: every request that passes validation gets a vector of exactly 43
   values, whichever fields are present and whether or not its labels are
   known to the vocabulary. *)
C1_VectorLengthIs43 ==
  (PredictDone /\ ~LoadFailed /\ PassesValidation(data))
     => (built /\ Len(input_features) = NFeatures)

C1_Witness ==
  /\ PredictDone /\ ~LoadFailed /\ PassesValidation(data)
  /\ data["furnishing"] = StrV(Luxury)
  /\ data["bedrooms"] = Absent
  /\ Len(input_features) = NFeatures

(* C2: for every request that passes validation the built vector equals the
   43-slot table slot by slot, absent optional fields taking their defaults. *)
C2_VectorMatchesTable ==
  (PredictDone /\ ~LoadFailed /\ PassesValidation(data))
     => /\ input_features = RefVector(data, label_encoders)
        /\ input_features[5] = Scale * RefInt(data, "bedrooms", 2)
        /\ input_features[27] = (RefArea(data) * 5) \div 2
        /\ input_features[42] = RefArea(data)

C2_Witness ==
  /\ PredictDone /\ ~LoadFailed /\ PassesValidation(data)
  /\ data["city"] = StrV(Atlantis)
  /\ data["total_floors"] = IntV(3)
  /\ data["area_sqft"] = IntV(1200)
  /\ input_features[15] = 0
  /\ input_features[27] = 3000 * Scale
  /\ input_features[31] = 14400 * Scale
  /\ input_features[32] = 65 * Scale
  /\ input_features[7] = Scale

(* C3: safe_encode never raises; it returns 0 for a field that has no
   vocabulary, the label's position for a label of the vocabulary, and 0 for
   any other label. *)
C3_SafeEncodeFallsBackToZero ==
  /\ (PredictDone /\ ~LoadFailed)
       => \A name \in CatNames \cup {"Locality"} : \A f \in Fields :
            data[f].t = "str"
              => safe_encode(label_encoders, name, data[f])
                   = [ok |-> TRUE, n |-> RefCode(label_encoders, name, data[f].s)]
  /\ (PredictDone /\ ~LoadFailed /\ PassesValidation(data))
       => /\ response.error # "Prediction failed"
          /\ input_features[1]
               = Scale * RefCode(label_encoders, "City", RefText(data, "city", Mumbai))
          /\ input_features[11]
               = Scale * RefCode(label_encoders, "Furnishing",
                                 RefText(data, "furnishing", Unfurnished))
          /\ input_features[13]
               = Scale * RefCode(label_encoders, "Facing",
                                 RefText(data, "facing", North))

C3_Witness ==
  /\ PredictDone /\ ~LoadFailed /\ PassesValidation(data)
  /\ "Facing" \notin label_encoders.fields
  /\ data["city"] = StrV(Mumbai)
  /\ data["furnishing"] = StrV(Luxury)
  /\ data["facing"] = StrV(East)
  /\ input_features[1] = Scale
  /\ input_features[11] = 0
  /\ input_features[13] = 0

(* C4: the finalized price is |r| when r < 0, divided by 10 when that
   sign-corrected value is strictly greater than 10000, rounded to 2
   decimals: -12 gives 12, 15000 and -15000 give 1500, 10000 stays, 55
   gives 55. *)
C4_FinalizedPrice ==
  (PredictDone /\ inferred)
     => /\ LET a == IF prediction < 0 THEN -prediction ELSE prediction
               b == IF a > 10000 * Fine THEN a \div 10 ELSE a
           IN response.price_lakhs = Round2(b)
        /\ (prediction = -12 * Fine => response.price_lakhs = 12 * Scale)
        /\ (prediction = 15000 * Fine => response.price_lakhs = 1500 * Scale)
        /\ (prediction = -15000 * Fine => response.price_lakhs = 1500 * Scale)
        /\ (prediction = 10000 * Fine => response.price_lakhs = 10000 * Scale)
        /\ (prediction = 55 * Fine
              => response.price_lakhs = 55 * Scale /\ response.price = <<55, 0>>)

C4_Witness ==
  /\ PredictDone /\ inferred
  /\ prediction = -15000 * Fine
  /\ response.status = 200
  /\ response.price_lakhs = 1500 * Scale

(* C5: a request whose bedrooms, bathrooms, age, floor or total_floors is
   present but not parseable as an integer is answered with a client error,
   not with a default and not with a server-side failure. *)
C5_UnparseableIntegerIsClientError ==
  (PredictDone /\ ~LoadFailed
     /\ NonEmptyText(data["city"]) /\ NonEmptyText(data["property_type"])
     /\ PositiveAreaOrAbsent(data["area_sqft"])
     /\ \E f \in IntFields : data[f].t = "str" /\ ~ParseInt(data[f].s).ok)
     => (response.kind = "error" /\ response.status \in 400..499)

(* C6: with model and vocabulary loaded and city and property_type non-empty,
   a provided area_sqft <= 0 is answered with the client error "Area must be
   greater than 0"; no vector is built and no inference is made. *)
C6_NonPositiveAreaRejected ==
  (PredictDone /\ ~LoadFailed
     /\ NonEmptyText(data["city"]) /\ NonEmptyText(data["property_type"])
     /\ data["area_sqft"].t # "absent"
     /\ PyFloat(data["area_sqft"]).ok /\ PyFloat(data["area_sqft"]).n <= 0)
     => /\ response.status = 400
        /\ response.error = "Area must be greater than 0"
        /\ ~built /\ ~inferred /\ input_features = <<>>

C6_Witness ==
  /\ PredictDone /\ ~LoadFailed
  /\ NonEmptyText(data["city"]) /\ NonEmptyText(data["property_type"])
  /\ data["area_sqft"] = IntV(0)
  /\ response.error = "Area must be greater than 0"

(* C7: after a failed load every predict request, valid or not, gets the
   model-unavailable error before validation, vector building or inference;
   the process keeps serving and health reports model_loaded and
   encoders_loaded false and expected_features 0. *)
C7_UnavailableAfterFailedLoad ==
  LoadFailed
     => /\ PredictDone
             => /\ response.status = 500
                /\ response.error = "Model not loaded properly"
                /\ ~built /\ ~inferred /\ input_features = <<>>
        /\ HealthDone
             => /\ response.status = 200
                /\ ~response.model_loaded /\ ~response.encoders_loaded
                /\ response.expected_features = 0
        /\ ENABLED Next

C7_Witness ==
  /\ LoadFailed /\ PredictDone /\ PassesValidation(data)
  /\ response.error = "Model not loaded properly"

(* C8: when the built vector's length differs from the model's expected
   feature count the request gets a server-side error (not a client error,
   not a success) and inference is not invoked. *)
C8_MismatchIsServerError ==
  (PredictDone /\ PassesValidation(data) /\ built /\ input_features # <<>>
     /\ Len(input_features) # model.n_features_in_)
     => (response.kind = "error" /\ response.status >= 500 /\ ~inferred)

(* C9: the vector is built from the normalized input: a city or
   property_type that trims to a known label is encoded as that label, slot
   32 is the trimmed city's pollution value, and the echoed city is the value
   that was encoded. *)
C9_VectorBuiltFromTrimmedInput ==
  (PredictDone /\ ~LoadFailed /\ PassesValidation(data)
     /\ model.n_features_in_ = NFeatures)
     => LET city == Strip(data["city"].s)
            ptype == Strip(data["property_type"].s)
        IN /\ response.status = 200
           /\ InClasses(label_encoders.classes["City"], StrV(city))
                => /\ input_features[1] = Scale * RefCode(label_encoders, "City", city)
                   /\ input_features[32] = Scale * RefPollution(city)
                   /\ input_features[1]
                        = Scale * RefCode(label_encoders, "City", response.city)
           /\ InClasses(label_encoders.classes["Property_Type"], StrV(ptype))
                => input_features[3]
                     = Scale * RefCode(label_encoders, "Property_Type", ptype)

====
